---- MODULE Spec2Model ----
(***************************************************************************)
(* Car dealer inventory simulation: the model (CarDealerInventoryModel),   *)
(* the two policies (SDPPolicy.get_decision, the threshold policy, and     *)
(* CarDealerPolicy.basic_order_up_to_policy, the forecast-adaptive one)    *)
(* and the two runner loops (SDPPolicy.run_policy and                      *)
(* CarDealerPolicy.run_policy).                                            *)
(*                                                                         *)
(* Numbers.  Python floats that are quantities of cars (demand, forecast,  *)
(* restock) are exact fixed-point numbers: the integer q stands for the    *)
(* real q / Unit.  Money (prices, costs) is integer-valued in the inputs   *)
(* drawn here; the objective, a quantity times a price, is kept in units   *)
(* of 1/Unit as well.  Unit is chosen so that every division the code      *)
(* makes (the forecast's 1 + 0.1 * t, the trend factors 1.2 and 0.8) is    *)
(* exact for as many steps as a run of the model can take.                 *)
(*                                                                         *)
(* Random numbers.  A generator is a seed and a position in the stream of  *)
(* standard normal draws that seed gives; a draw reads the stream at the   *)
(* position and the caller advances it.  Two generators with one seed and  *)
(* one position give the same draws.                                       *)
(*                                                                         *)
(* Specifications.  SpecModel drives the model's methods directly,         *)
(* SpecSDP is SDPPolicy.run_policy, Spec is CarDealerPolicy.run_policy,    *)
(* SpecFleet calls the two policies on fleets of other cars, and SpecTwin  *)
(* runs CarDealerPolicy.run_policy twice from one construction.            *)
(***************************************************************************)
EXTENDS Integers, Sequences, FiniteSets, TLC

\* ------------------------------------------------------------------ bounds

\* The horizon T of the model (constructor argument).
T == 2

\* n_iterations of a runner call.
n_iterations == 2

\* Number of calls the direct driver of the model's methods makes.
MaxCalls == 2

\* Storage capacity of the dealer (constructor argument max_inventory).
max_inventory == 20

\* ------------------------------------------------------- program constants

holding_cost == 85
fixed_cost_per_unit == 300
winter_holding_cost == 90
summer_holding_cost == 70
\* discount_rate = 0.05, in hundredths.
discount_rate == 5

\* ------------------------------------------------------------- arithmetic

Max(a, b) == IF a >= b THEN a ELSE b
Min(a, b) == IF a <= b THEN a ELSE b

RECURSIVE Pow10(_)
Pow10(n) == IF n = 0 THEN 1 ELSE 10 * Pow10(n - 1)

\* The most transitions any run of the model applies to one State.
MaxSteps == Max(T, Max(n_iterations, MaxCalls))

\* One car, as a fixed-point quantity: fifths, and one decimal digit per step.
Unit == 5 * Pow10(MaxSteps)

\* The float of an int.
Real(n) == n * Unit

\* Python's round(x) for a float x: to the nearest integer, ties to even.
PyRound(x) ==
    LET q == x \div Unit
        r == x % Unit
    IN  IF 2 * r < Unit THEN q
        ELSE IF 2 * r > Unit THEN q + 1
        ELSE IF q % 2 = 0 THEN q ELSE q + 1

\* Python's int(x) for a float x: truncation toward zero.
PyInt(x) == IF x >= 0 THEN x \div Unit ELSE -((-x) \div Unit)

\* sum(f[k] for k in S)
RECURSIVE SumOver(_, _)
SumOver(f, S) ==
    IF S = {} THEN 0
    ELSE LET k == CHOOSE x \in S : TRUE IN f[k] + SumOver(f, S \ {k})

\* dict.get(k, default)
DictGet(d, k, default) == IF k \in DOMAIN d THEN d[k] ELSE default

\* str.lower() on the trend and season names the model meets.
Lower(s) ==
    CASE s = "Winter" -> "winter"
      [] s = "Summer" -> "summer"
      [] s = "Stable" -> "stable"
      [] OTHER -> s

\* -------------------------------------------------------------- the fleet

\* The tracked cars of the runners' model, in the insertion order of
\* S0["inventory_level"].
CarOrder == <<"Car A", "Car B">>
Cars == {CarOrder[i] : i \in 1..Len(CarOrder)}

\* Every car name an S0 may carry, in the order S0 inserts them.
AllCarOrder == <<"Car A", "Car B", "Car C", "Car D">>
AllCars == {AllCarOrder[i] : i \in 1..Len(AllCarOrder)}

\* for car in d: the keys of a dict in insertion order.
KeyOrder(d) == SelectSeq(AllCarOrder, LAMBDA car : car \in DOMAIN d)

trend_eta_params == [stable |-> <<6, 3, 1>>, rising |-> <<7, 2, 1>>, declining |-> <<5, 3, 2>>]

\* State(**S0): the namedtuple the constructor builds from S0.
InitialState(S0) ==
    [inventory_level |-> S0.inventory_level,
     holding_time |-> S0.holding_time,
     competitor_price |-> S0.competitor_price,
     market_trends |-> DictGet(S0, "market_trends", [c \in DOMAIN S0.inventory_level |-> "stable"]),
     market_trends_lag1 |-> DictGet(S0, "market_trends_lag1", [c \in DOMAIN S0.inventory_level |-> "stable"]),
     market_trends_lag2 |-> DictGet(S0, "market_trends_lag2", [c \in DOMAIN S0.inventory_level |-> "stable"]),
     demand_forecast |-> S0.demand_forecast,
     trend_eta_params |-> trend_eta_params]

StateFields == {"inventory_level", "holding_time", "competitor_price", "market_trends", "market_trends_lag1", "market_trends_lag2", "demand_forecast", "trend_eta_params"}

\* ------------------------------------------------- CarDealerInventoryModel

\* cars_sold[car] of transition_fn.
CarsSold(state, exog_info, car) ==
    Min(PyRound(DictGet(DictGet(exog_info, "demand", <<>>), car, 0)), state.inventory_level[car])

\* cars_added[car] of transition_fn.
CarsAdded(decision, car) == PyInt(DictGet(decision.restock, car, 0))

\* A mutant of NewInventory: the floor at 0 is left out.
NewInventoryNoFloor(state, decision, exog_info, car) ==
    state.inventory_level[car] + CarsAdded(decision, car) - CarsSold(state, exog_info, car)

\* new_inventory[car] of transition_fn.
NewInventory(state, decision, exog_info, car) ==
    Max(0, state.inventory_level[car] + CarsAdded(decision, car) - CarsSold(state, exog_info, car))

\* A mutant of NewHoldingTime: the clock is reset on the lot being empty before
\* the step, not after it.
NewHoldingTimeOld(state, new_inventory, car) ==
    IF state.inventory_level[car] > 0 THEN state.holding_time[car] + 1 ELSE 0

\* new_holding_time[car] of transition_fn.
NewHoldingTime(state, new_inventory, car) ==
    IF new_inventory[car] > 0 THEN state.holding_time[car] + 1 ELSE 0

\* new_demand_forecast[car] of transition_fn: demand * (1 + 0.1 * t).
NewDemandForecast(exog_info, t, car) ==
    Max(0, (DictGet(DictGet(exog_info, "demand", <<>>), car, 0) * (10 + t)) \div 10)

\* A mutant of transition_fn: the two lags both take the current trends, so
\* market_trends_lag1 is not handed on to market_trends_lag2.
transition_fn_lags_collapsed(state, t, decision, exog_info) ==
    LET cars == DOMAIN state.inventory_level
        new_inventory == [car \in cars |-> NewInventory(state, decision, exog_info, car)]
    IN  [inventory_level |-> new_inventory,
         holding_time |-> [car \in cars |-> NewHoldingTime(state, new_inventory, car)],
         competitor_price |-> exog_info.competitor_prices,
         market_trends |-> exog_info.market_trends,
         market_trends_lag1 |-> state.market_trends,
         market_trends_lag2 |-> state.market_trends,
         demand_forecast |-> [car \in DOMAIN state.demand_forecast |-> NewDemandForecast(exog_info, t, car)],
         trend_eta_params |-> state.trend_eta_params,
         cars_sold |-> [car \in cars |-> CarsSold(state, exog_info, car)],
         cars_added |-> [car \in cars |-> CarsAdded(decision, car)]]

\* transition_fn(decision, exog_info) of a model with State state at time t.
transition_fn(state, t, decision, exog_info) ==
    LET cars == DOMAIN state.inventory_level
        new_inventory == [car \in cars |-> NewInventory(state, decision, exog_info, car)]
    IN  [inventory_level |-> new_inventory,
         holding_time |-> [car \in cars |-> NewHoldingTime(state, new_inventory, car)],
         competitor_price |-> exog_info.competitor_prices,
         market_trends |-> exog_info.market_trends,
         market_trends_lag1 |-> state.market_trends,
         market_trends_lag2 |-> state.market_trends_lag1,
         demand_forecast |-> [car \in DOMAIN state.demand_forecast |-> NewDemandForecast(exog_info, t, car)],
         trend_eta_params |-> state.trend_eta_params,
         cars_sold |-> [car \in cars |-> CarsSold(state, exog_info, car)],
         cars_added |-> [car \in cars |-> CarsAdded(decision, car)]]

\* State(**{key: new_state[key] for key in State._fields})
BuildState(new_state) == [key \in StateFields |-> new_state[key]]

\* self.seasonal_holding_cost.get(trend.lower(), self.holding_cost)
SeasonalHoldingCost(trend) ==
    CASE Lower(trend) = "winter" -> winter_holding_cost
      [] Lower(trend) = "summer" -> summer_holding_cost
      [] OTHER -> holding_cost

\* The units of a car objective_fn takes as sold for the revenue:
\* min(inventory_level[car], exog_info["demand"][car]), a float.
RevenueUnits(state, exog_info, car) ==
    Min(Real(state.inventory_level[car]), exog_info.demand[car])

\* unsold_inventory of objective_fn: the stock less min(stock, int(demand)).
unsold_inventory(state, exog_info) ==
    [car \in DOMAIN state.inventory_level |-> state.inventory_level[car] - Min(state.inventory_level[car], PyInt(exog_info.demand[car]))]

\* objective_fn(decision, exog_info) of a model whose State is state; in 1/Unit.
objective_fn(state, decision, exog_info) ==
    LET cars == DOMAIN state.inventory_level
        revenue == SumOver([car \in cars |-> RevenueUnits(state, exog_info, car) * decision.price[car]], cars)
        restocking_cost == SumOver([car \in DOMAIN decision.restock |-> decision.restock[car] * fixed_cost_per_unit], DOMAIN decision.restock)
        unsold == unsold_inventory(state, exog_info)
        holding == SumOver([car \in cars |-> unsold[car] * state.holding_time[car] * SeasonalHoldingCost(exog_info.market_trends[car])], cars)
    IN  revenue - (restocking_cost + Real(holding))

\* A mutant of TotalAfterRestock: the stock on the lot is left out of the sum.
TotalRestockOnly(state, decision) ==
    SumOver([car \in DOMAIN state.inventory_level |-> decision.restock[car]], DOMAIN state.inventory_level)

\* total_inventory of is_valid_decision, as a float.
TotalAfterRestock(state, decision) ==
    SumOver([car \in DOMAIN state.inventory_level |-> Real(state.inventory_level[car]) + decision.restock[car]], DOMAIN state.inventory_level)

\* A mutant of is_valid_decision: a full lot is rejected too (>= for >).
is_valid_decision_ge(state, decision) ==
    IF \E car \in DOMAIN decision.restock : decision.restock[car] < 0 THEN "ValueError"
    ELSE IF TotalAfterRestock(state, decision) >= Real(max_inventory) THEN "ValueError"
    ELSE "True"

\* is_valid_decision(decision): "True", or the exception it raises.
is_valid_decision(state, decision) ==
    IF \E car \in DOMAIN decision.restock : decision.restock[car] < 0 THEN "ValueError"
    ELSE IF TotalAfterRestock(state, decision) > Real(max_inventory) THEN "ValueError"
    ELSE "True"

\* f"2023-{(t % 12) + 1:02d}"
MonthNames == <<"2023-01", "2023-02", "2023-03", "2023-04", "2023-05", "2023-06", "2023-07", "2023-08", "2023-09", "2023-10", "2023-11", "2023-12">>
CurrentMonth(t) == MonthNames[(t % 12) + 1]

\* The seeds a model may be constructed with (42 is the default).
Seeds == {42, 7, 11, 13, 17, 19}

\* The standard normal variates a stream is made of here: -0.5, 0.12 and 10.
ZLow == -(Unit \div 2)
ZMid == (3 * Unit) \div 25
ZHigh == 10 * Unit

\* The stream of standard normal variates a generator seeded with seed yields:
\* its first variates, read cyclically.
Stream(seed) ==
    CASE seed = 42 -> <<ZLow, ZMid, ZHigh>>
      [] seed = 7 -> <<ZMid, ZMid, ZLow, ZHigh, ZHigh>>
      [] seed = 11 -> <<ZHigh, ZLow>>
      [] seed = 13 -> <<ZMid, ZHigh, ZMid, ZLow, ZMid>>
      [] seed = 17 -> <<ZLow, ZLow, ZMid>>
      [] OTHER -> <<ZHigh, ZMid, ZMid, ZLow>>

\* A generator: its seed and the number of variates drawn from it so far.
RandomState(seed) == [seed |-> seed, pos |-> 0]

\* prng.normal(loc, scale) when pos variates have been drawn from the generator.
normal(prng, pos, loc, scale) ==
    loc + scale * Stream(prng.seed)[(pos % Len(Stream(prng.seed))) + 1]

\* The position of a key in the enumeration of a dict.
IndexOf(d, car) == CHOOSE j \in 1..Len(KeyOrder(d)) : KeyOrder(d)[j] = car

\* One pass of the loop of exog_info_fn over the cars from position k on.  acc
\* holds demand, competitor_prices and new_market_trends so far, and pos, the
\* number of variates drawn from prng.  A car with a row draws random_variation
\* and rebinds demand to a dict over all cars, one draw per car; a car without
\* one draws once and sets its own key.
RECURSIVE ExogLoop(_, _, _, _, _)
ExogLoop(state, trends_for_month, prng, k, acc) ==
    IF k > Len(KeyOrder(state.inventory_level)) THEN acc
    ELSE LET car == KeyOrder(state.inventory_level)[k]
             car_trend_data == {row \in trends_for_month : row.Model = car}
             row == CHOOSE r \in car_trend_data : TRUE
             base_demand == DictGet(state.demand_forecast, car, 0)
         IN  IF car_trend_data # {}
             THEN ExogLoop(state, trends_for_month, prng, k + 1,
                    [demand |-> [c \in DOMAIN state.inventory_level |->
                                    Max(0, normal(prng, acc.pos + IndexOf(state.inventory_level, c), state.demand_forecast[c], 10))],
                     competitor_prices |-> (car :> Max(0, state.competitor_price[car] + row.Price_Trend - row.Competitor_Activity)) @@ acc.competitor_prices,
                     market_trends |-> (car :> row.Season) @@ acc.market_trends,
                     pos |-> acc.pos + 1 + Len(KeyOrder(state.inventory_level))])
             ELSE ExogLoop(state, trends_for_month, prng, k + 1,
                    [demand |-> (car :> Max(0, base_demand + normal(prng, acc.pos, 0, 5))) @@ acc.demand,
                     competitor_prices |-> (car :> state.competitor_price[car]) @@ acc.competitor_prices,
                     market_trends |-> (car :> "stable") @@ acc.market_trends,
                     pos |-> acc.pos + 1])

\* The generator after exog_info_fn has drawn from it.
prng_after_exog_info_fn(state, t, df, prng) ==
    LET trends_for_month == {row \in df : row.Month = CurrentMonth(t)}
        loop == ExogLoop(state, trends_for_month, prng, 1, [demand |-> <<>>, competitor_prices |-> <<>>, market_trends |-> <<>>, pos |-> prng.pos])
    IN  [prng EXCEPT !.pos = loop.pos]

\* A mutant of exog_info_fn: the fallback branch does not copy the current
\* competitor price, so only cars with a trend row get a competitor_prices entry.
exog_info_fn_no_fallback_price(state, t, df, prng) ==
    LET trends_for_month == {row \in df : row.Month = CurrentMonth(t)}
        loop == ExogLoop(state, trends_for_month, prng, 1, [demand |-> <<>>, competitor_prices |-> <<>>, market_trends |-> <<>>, pos |-> prng.pos])
        max_demand == [car \in DOMAIN state.demand_forecast |-> 2 * state.demand_forecast[car]]
    IN  [demand |-> [car \in DOMAIN loop.demand |-> Min(loop.demand[car], DictGet(max_demand, car, loop.demand[car]))],
         competitor_prices |-> [car \in {c \in DOMAIN loop.competitor_prices : \E row \in trends_for_month : row.Model = c} |-> loop.competitor_prices[car]],
         market_trends |-> loop.market_trends]

\* A mutant of exog_info_fn: the demand is not capped at twice the forecast.
exog_info_fn_uncapped(state, t, df, prng) ==
    LET trends_for_month == {row \in df : row.Month = CurrentMonth(t)}
        loop == ExogLoop(state, trends_for_month, prng, 1, [demand |-> <<>>, competitor_prices |-> <<>>, market_trends |-> <<>>, pos |-> prng.pos])
    IN  [demand |-> loop.demand,
         competitor_prices |-> loop.competitor_prices,
         market_trends |-> loop.market_trends]

\* exog_info_fn(decision) of a model with State state at time t, trend table
\* df and generator prng.
exog_info_fn(state, t, df, prng) ==
    LET trends_for_month == {row \in df : row.Month = CurrentMonth(t)}
        loop == ExogLoop(state, trends_for_month, prng, 1, [demand |-> <<>>, competitor_prices |-> <<>>, market_trends |-> <<>>, pos |-> prng.pos])
        max_demand == [car \in DOMAIN state.demand_forecast |-> 2 * state.demand_forecast[car]]
    IN  [demand |-> [car \in DOMAIN loop.demand |-> Min(loop.demand[car], DictGet(max_demand, car, loop.demand[car]))],
         competitor_prices |-> loop.competitor_prices,
         market_trends |-> loop.market_trends]

\* ------------------------------------------------ SDPPolicy.get_decision

ThresholdCars == {"Car A", "Car B", "Car C"}
WinterThetaMin == [car \in ThresholdCars |-> CASE car = "Car A" -> 5 [] car = "Car B" -> 10 [] OTHER -> 5]
SummerThetaMin == [car \in ThresholdCars |-> CASE car = "Car A" -> 10 [] car = "Car B" -> 12 [] OTHER -> 8]
WinterThetaMax == [car \in ThresholdCars |-> CASE car = "Car A" -> 15 [] car = "Car B" -> 20 [] OTHER -> 15]
SummerThetaMax == [car \in ThresholdCars |-> CASE car = "Car A" -> 20 [] car = "Car B" -> 25 [] OTHER -> 20]

\* current_month in [9, 10, 11, 0, 1]
IsWinter(t) == (t % 12) \in {9, 10, 11, 0, 1}

\* state.market_trends == "rising": Python's == of a dict and a str is False.
DictEqualsStr(d, str) == FALSE

\* theta_min and theta_max of get_decision after the trend adjustment.
ThetaMin(state, t) ==
    LET theta_min == IF IsWinter(t) THEN WinterThetaMin ELSE SummerThetaMin
    IN  IF DictEqualsStr(state.market_trends, "rising") THEN theta_min
        ELSE IF DictEqualsStr(state.market_trends, "declining") THEN [car \in DOMAIN theta_min |-> Max(0, theta_min[car] - 2)]
        ELSE theta_min

ThetaMax(state, t) ==
    LET theta_max == IF IsWinter(t) THEN WinterThetaMax ELSE SummerThetaMax
    IN  IF DictEqualsStr(state.market_trends, "rising") THEN [car \in DOMAIN theta_max |-> theta_max[car] + 2]
        ELSE theta_max

\* A mutant of RestockLoop: the remaining capacity is not reduced by what a
\* car was given, so every car is capped by the capacity at the start.
RECURSIVE RestockLoopSameCapacity(_, _, _, _, _, _)
RestockLoopSameCapacity(state, theta_min, theta_max, k, available_capacity, restock) ==
    IF k > Len(KeyOrder(state.inventory_level)) THEN restock
    ELSE LET car == KeyOrder(state.inventory_level)[k]
             target_restock == theta_max[car] - state.inventory_level[car]
             amount == IF state.inventory_level[car] < theta_min[car] THEN Min(target_restock, available_capacity) ELSE 0
         IN  RestockLoopSameCapacity(state, theta_min, theta_max, k + 1, available_capacity, (car :> amount) @@ restock)

\* The restock loop of get_decision from position k on.
RECURSIVE RestockLoop(_, _, _, _, _, _)
RestockLoop(state, theta_min, theta_max, k, available_capacity, restock) ==
    IF k > Len(KeyOrder(state.inventory_level)) THEN restock
    ELSE LET car == KeyOrder(state.inventory_level)[k]
             target_restock == theta_max[car] - state.inventory_level[car]
             amount == IF state.inventory_level[car] < theta_min[car] THEN Min(target_restock, available_capacity) ELSE 0
         IN  RestockLoop(state, theta_min, theta_max, k + 1, available_capacity - amount, (car :> amount) @@ restock)

\* price[car] of get_decision.
ThresholdPrice(state, car) ==
    state.competitor_price[car] - (IF state.holding_time[car] > 10 THEN 100 ELSE 50)

\* get_decision(state, t, T) of the threshold policy.
get_decision(state, t, horizon) ==
    LET total_inventory == SumOver(state.inventory_level, DOMAIN state.inventory_level)
        available_capacity == max_inventory - total_inventory
        restock == RestockLoop(state, ThetaMin(state, t), ThetaMax(state, t), 1, available_capacity, <<>>)
    IN  [restock |-> [car \in DOMAIN restock |-> Real(restock[car])],
         price |-> [car \in DOMAIN state.inventory_level |-> ThresholdPrice(state, car)],
         discount |-> [car \in DOMAIN state.inventory_level |-> IF state.holding_time[car] > 30 THEN discount_rate ELSE 0]]

\* ------------------------------ CarDealerPolicy.basic_order_up_to_policy

\* self.variance_demand = {car: 0 for car in S0["inventory_level"]}
variance_demand == [car \in AllCars |-> 0]

\* int(v ** 0.5)
RECURSIVE IntSqrt(_, _)
IntSqrt(v, n) == IF (n + 1) * (n + 1) > v THEN n ELSE IntSqrt(v, n + 1)

\* trend_adjustments.get(current_trend, 1.0), in tenths.
TrendFactor(current_trend) ==
    CASE current_trend = "rising" -> 12
      [] current_trend = "stable" -> 10
      [] current_trend = "declining" -> 8
      [] OTHER -> 10

\* restock[car] of basic_order_up_to_policy, for the State the policy reads.
OrderUpToRestock(state, theta_max, exog, car) ==
    LET level == state.inventory_level[car]
        trend_factor == TrendFactor(DictGet(state.market_trends, car, "stable"))
        safety_buffer == IntSqrt(variance_demand[car], 0)
        target_demand == exog.demand[car] + Real(safety_buffer)
    IN  Max(0, Min(Real(theta_max[car] - level), (trend_factor * target_demand) \div 10))

\* basic_order_up_to_policy(theta_min, theta_max, exog_info), reading state.
basic_order_up_to_policy(state, theta_min, theta_max, exog) ==
    [restock |-> [car \in DOMAIN state.inventory_level |-> OrderUpToRestock(state, theta_max, exog, car)],
     price |-> [car \in DOMAIN state.inventory_level |-> Max(0, state.competitor_price[car] - 50)],
     discount |-> [car \in DOMAIN state.inventory_level |-> 0]]

\* ------------------------------------------------------------------ state

VARIABLES
    model,              \* self.model of the policy: [state, t, objective, prng]
    model_copy,         \* the runner's working copy: [state, t, objective, prng]
    market_trends_df,   \* self.market_trends_df of the model: a DataFrame, or None
    policy_args,        \* theta_min and theta_max handed to run_policy
    i,                  \* the loop index of the caller
    pc,                 \* where the caller is
    exog_info,          \* the caller's exog_info of the last step
    decision,           \* the caller's decision of the last step
    step_profit,        \* the caller's step_profit of the last step
    call,               \* the model method called last
    returned,           \* what that call returned, or the exception it raised
    result_list,        \* result_list of SDPPolicy.run_policy: the rows logged
    twin                \* a second run, of a second model built from the same arguments

vars == <<model, model_copy, market_trends_df, policy_args, i, pc, exog_info, decision, step_profit, call, returned, result_list, twin>>

\* ----------------------------------------------------------------- inputs

Dict(a, b) == [car \in Cars |-> IF car = CarOrder[1] THEN a ELSE b]

\* Stock, holding times, competitor prices, trends and forecasts an S0 may carry.
InventoryLevels == {Dict(3, 4), Dict(12, 8), Dict(0, 5), Dict(3, 18)}
HoldingTimes == {Dict(0, 0), Dict(3, 11), Dict(11, 31)}
CompetitorPrices == {Dict(40, 120)}
MarketTrends == {Dict("stable", "stable"), Dict("rising", "rising"), Dict("declining", "declining")}
DemandForecasts == {Dict(Real(2), Real(2))}

S0s(levels, times, trends) ==
    {[inventory_level |-> l, holding_time |-> h, competitor_price |-> p, market_trends |-> m, demand_forecast |-> f] :
        l \in levels, h \in times, p \in CompetitorPrices, m \in trends, f \in DemandForecasts}

\* Restock mappings a caller may hand to the model: -1, 2.4 and whole cars.
Restocks == {Dict(0, 0), Dict(Real(-1), 0), Dict((12 * Unit) \div 5, 0), Dict(Real(5), Real(8)), Dict(0, Real(3))}

\* Realised demands: 0, 2.6 and 7 cars.
Demands == {Dict(0, 0), Dict((13 * Unit) \div 5, Real(7)), Dict(Real(7), (13 * Unit) \div 5), Dict((7 * Unit) \div 2, 0)}

Decisions == {[restock |-> r, price |-> Dict(60, 70), discount |-> Dict(0, 0)] : r \in Restocks}

ExogInfos(state) ==
    {[demand |-> d, competitor_prices |-> state.competitor_price, market_trends |-> Dict("Winter", "Summer")] : d \in Demands}

NoDecision == [restock |-> <<>>, price |-> <<>>, discount |-> <<>>]
NoExogInfo == [demand |-> <<>>, competitor_prices |-> <<>>, market_trends |-> <<>>]
NoArgs == [theta_min |-> <<>>, theta_max |-> <<>>]
NoTwin == [pc |-> "none"]

\* pd.read_csv(market_trends_file) if market_trends_file else None: a
\* DataFrame with its rows, or None.
DataFrame(rows) == [is_none |-> FALSE, rows |-> rows]
None == [is_none |-> TRUE, rows |-> {}]

\* self.market_trends_df[...] of exog_info_fn: subscripting None raises.
exog_info_fn_raises(df) == df.is_none

\* CarDealerInventoryModel(S0, seed=seed), at time t.
NewModel(S0, t, seed) == [state |-> InitialState(S0), t |-> t, objective |-> 0, prng |-> RandomState(seed)]

\* ------------------------------------- the model's methods, called directly

\* A caller that holds a model at some time t < T and calls its methods.
InitModel ==
    /\ \E S0 \in S0s(InventoryLevels, HoldingTimes, {Dict("stable", "stable")}), t \in 0..(T - 1) : model = NewModel(S0, t, 42)
    /\ model_copy = model
    /\ market_trends_df = DataFrame({})
    /\ policy_args = NoArgs
    /\ i = 0
    /\ pc = "calls"
    /\ exog_info = NoExogInfo
    /\ decision = NoDecision
    /\ step_profit = 0
    /\ call = "none"
    /\ returned = "none"
    /\ result_list = <<>>
    /\ twin = NoTwin

\* model.is_valid_decision(d)
CallIsValidDecision(d) ==
    /\ i < MaxCalls
    /\ i' = i + 1
    /\ call' = "is_valid_decision"
    /\ decision' = d
    /\ returned' = is_valid_decision(model.state, d)
    /\ UNCHANGED <<model, model_copy, market_trends_df, policy_args, pc, exog_info, step_profit, result_list, twin>>

\* model.state = State(**model.transition_fn(d, w)), with no validation before it.
CallTransitionFn(d, w) ==
    /\ i < MaxCalls
    /\ i' = i + 1
    /\ call' = "transition_fn"
    /\ decision' = d
    /\ exog_info' = w
    /\ returned' = "state"
    /\ model' = [model EXCEPT !.state = BuildState(transition_fn(model.state, model.t, d, w))]
    /\ UNCHANGED <<model_copy, market_trends_df, policy_args, pc, step_profit, result_list, twin>>

\* An accepted step: is_valid_decision(d) has returned True, then the transition.
AcceptedStep(d, w) ==
    /\ i < MaxCalls
    /\ is_valid_decision(model.state, d) = "True"
    /\ i' = i + 1
    /\ call' = "accepted_step"
    /\ decision' = d
    /\ exog_info' = w
    /\ returned' = "state"
    /\ model' = [model EXCEPT !.state = BuildState(transition_fn(model.state, model.t, d, w))]
    /\ UNCHANGED <<model_copy, market_trends_df, policy_args, pc, step_profit, result_list, twin>>

NextModel ==
    \/ \E d \in Decisions : CallIsValidDecision(d)
    \/ \E d \in Decisions : \E w \in ExogInfos(model.state) : CallTransitionFn(d, w)
    \/ \E d \in Decisions : \E w \in ExogInfos(model.state) : AcceptedStep(d, w)

SpecModel == InitModel /\ [][NextModel]_vars

\* ------------------------------------------------- the runners' inputs

\* The rows a trend file (cleaned_market_trends.csv) may hold.
TrendTables ==
    {{},
     {[Month |-> "2023-01", Model |-> "Car A", Demand_Index |-> 1, Price_Trend |-> 10, Competitor_Activity |-> 30, Season |-> "Winter"],
      [Month |-> "2023-02", Model |-> "Car B", Demand_Index |-> 1, Price_Trend |-> 5, Competitor_Activity |-> 0, Season |-> "Summer"]}}

\* theta_min and theta_max as main.load_initial_state derives them from S0,
\* and a fixed pair of thresholds.
PolicyArgs(S0) ==
    {[theta_min |-> [car \in Cars |-> Max(2, S0.inventory_level[car] - 2)],
      theta_max |-> [car \in Cars |-> S0.inventory_level[car] + 5]],
     [theta_min |-> Dict(5, 5), theta_max |-> Dict(10, 10)]}

\* The trend tables of a model: built with one of the files, or without a file.
TrendFrames == {None} \cup {DataFrame(rows) : rows \in TrendTables}

RunnerS0s == S0s(InventoryLevels \ {Dict(0, 5)}, HoldingTimes, MarketTrends)

\* The S0s among them whose stock is within max_inventory.
WithinCapacity(S0) == SumOver(S0.inventory_level, DOMAIN S0.inventory_level) <= max_inventory

\* ------------------------------------------------------ SDPModel (base class)

\* is_finished()
is_finished(m) == m.t >= T

\* reset(reset_prng=False) on a copy of the model: initial State, t = 0,
\* objective = 0; the generator is left where it is.
reset(m) == [state |-> m.state, t |-> 0, objective |-> 0, prng |-> m.prng]

\* build_decision(raw): the Decision namedtuple of a policy's dict.
build_decision(raw) == [restock |-> raw.restock, price |-> raw.price, discount |-> raw.discount]

\* step(decision) after validation: exogenous information, objective on the
\* State before the transition, the transition, and t + 1.
step(m, df, d) ==
    LET w == exog_info_fn(m.state, m.t, df, m.prng)
    IN  [state |-> BuildState(transition_fn(m.state, m.t, d, w)),
         t |-> m.t + 1,
         objective |-> m.objective + objective_fn(m.state, d, w),
         prng |-> prng_after_exog_info_fn(m.state, m.t, df, m.prng)]

\* ------------------------------------------------- SDPPolicy.run_policy

InitSDP ==
    /\ \E S0 \in RunnerS0s, seed \in Seeds : model = NewModel(S0, 0, seed)
    /\ model_copy = model
    /\ market_trends_df \in TrendFrames
    /\ policy_args = NoArgs
    /\ i = 0
    /\ pc = "for"
    /\ exog_info = NoExogInfo
    /\ decision = NoDecision
    /\ step_profit = 0
    /\ call = "none"
    /\ returned = "none"
    /\ result_list = <<>>
    /\ twin = NoTwin

\* A mutant of shared_prng: the copy has a generator of its own (deepcopy), so
\* self.model's generator stays where it was.
own_prng(m, working_copy) == m

\* self.model after its copy() has drawn: a shallow copy shares the generator
\* object, so self.model.prng is the generator the working copy advanced.
shared_prng(m, working_copy) == [m EXCEPT !.prng = working_copy.prng]

\* results_dict of a pass of the while loop: N, t, "C_t sum", the fields of
\* state_t and the fields of decision_t.
StepRow(n, m, decision_t) ==
    [N |-> n, t |-> m.t, C_t_sum |-> m.objective, state |-> m.state, decision |-> decision_t]

\* results_dict after the while loop: N, t, "C_t sum" and the fields of
\* state_t_plus_1; it has no decision columns.
TerminalRow(n, m) ==
    [N |-> n, t |-> m.t, C_t_sum |-> m.objective, state |-> m.state, decision |-> NoDecision]

\* A mutant of performance: the rows of the first step (t = 0) are taken, not
\* the rows at t_end.
performance_at_start(rows) ==
    {<<rows[k].N, rows[k].C_t_sum>> : k \in {j \in DOMAIN rows : rows[j].t = 0}}

\* self.performance: t_end is the largest t of an iteration's rows, and the
\* performance of the iteration is the "C_t sum" of its rows at t_end.
performance(rows) ==
    LET t_end(n) == CHOOSE t \in {rows[j].t : j \in {k \in DOMAIN rows : rows[k].N = n}} :
                        \A j \in DOMAIN rows : rows[j].N = n => rows[j].t <= t
    IN  {<<rows[k].N, rows[k].C_t_sum>> : k \in {j \in DOMAIN rows : rows[j].t = t_end(rows[j].N)}}

\* for i in range(n_iterations): model_copy = copy(self.model); reset
SDPBeginIteration ==
    /\ pc = "for"
    /\ i < n_iterations
    /\ model_copy' = reset(model)
    /\ pc' = "while"
    /\ call' = "reset"
    /\ UNCHANGED <<model, market_trends_df, policy_args, i, exog_info, decision, step_profit, returned, result_list, twin>>

\* One pass of the while loop: get_decision, build_decision, step.  The step
\* validates the decision and calls exog_info_fn; a ValueError of the one or a
\* TypeError of the other leaves the loop and the runner.
SDPStep ==
    /\ pc = "while"
    /\ ~is_finished(model_copy)
    /\ LET state_t == model_copy.state
           decision_t == build_decision(get_decision(state_t, model_copy.t, T))
           valid == is_valid_decision(model_copy.state, decision_t)
           w == exog_info_fn(model_copy.state, model_copy.t, market_trends_df.rows, model_copy.prng)
       IN  /\ decision' = decision_t
           /\ result_list' = Append(result_list, StepRow(i, model_copy, decision_t))
           /\ call' = "step"
           /\ IF valid = "True" /\ ~exog_info_fn_raises(market_trends_df)
              THEN /\ returned' = "True"
                   /\ model_copy' = step(model_copy, market_trends_df.rows, decision_t)
                   /\ model' = shared_prng(model, model_copy')
                   /\ exog_info' = w
                   /\ step_profit' = objective_fn(model_copy.state, decision_t, w)
                   /\ pc' = "while"
              ELSE /\ returned' = IF valid = "True" THEN "TypeError" ELSE valid
                   /\ pc' = "raised"
                   /\ UNCHANGED <<model, model_copy, exog_info, step_profit>>
    /\ UNCHANGED <<market_trends_df, policy_args, i, twin>>

\* The while loop ends: the terminal row, and the next iteration.
SDPEndIteration ==
    /\ pc = "while"
    /\ is_finished(model_copy)
    /\ result_list' = Append(result_list, TerminalRow(i, model_copy))
    /\ i' = i + 1
    /\ pc' = "for"
    /\ call' = "is_finished"
    /\ UNCHANGED <<model, model_copy, market_trends_df, policy_args, exog_info, decision, step_profit, returned, twin>>

\* The for loop ends: self.performance is performance(result_list), and
\* run_policy returns its mean.
SDPReturn ==
    /\ pc = "for"
    /\ i = n_iterations
    /\ pc' = "return"
    /\ call' = "none"
    /\ UNCHANGED <<model, model_copy, market_trends_df, policy_args, i, exog_info, decision, step_profit, returned, result_list, twin>>

NextSDP ==
    \/ SDPBeginIteration
    \/ SDPStep
    \/ SDPEndIteration
    \/ SDPReturn

SpecSDP == InitSDP /\ [][NextSDP]_vars

\* --------------------------------------------- CarDealerPolicy.run_policy
\* (the runner main.py calls: Init, Next and Spec are its specification)

\* results = []; model_copy = deepcopy(self.model)
Init ==
    /\ \E S0 \in RunnerS0s :
          /\ WithinCapacity(S0)
          /\ \E seed \in Seeds : model = NewModel(S0, 0, seed)
          /\ policy_args \in PolicyArgs(S0)
    /\ model_copy = model
    /\ market_trends_df \in TrendFrames
    /\ i = 0
    /\ pc = "for"
    /\ exog_info = NoExogInfo
    /\ decision = NoDecision
    /\ step_profit = 0
    /\ call = "none"
    /\ returned = "none"
    /\ result_list = <<>>
    /\ twin = NoTwin

\* A mutant of self_prng: the draws come from one generator shared by every
\* model of the process (here: the first model's working copy), not from the
\* model's own.
process_prng(m) == model_copy.prng

\* self.prng of a model.
self_prng(m) == m.prng

\* The body of the for loop for the policy object's model m, the working copy
\* and the arguments of the call.  The policy function is a bound method of
\* the policy object: it reads self.model, not model_copy.
run_policy_pass(m, working_copy, args, df) ==
    LET w == exog_info_fn(working_copy.state, working_copy.t, df, self_prng(working_copy))
        d == basic_order_up_to_policy(m.state, args.theta_min, args.theta_max, w)
        new_state == transition_fn(working_copy.state, working_copy.t, d, w)
        state_after == BuildState(new_state)
        profit == objective_fn(state_after, d, w)
    IN  [exog_info |-> w,
         decision |-> d,
         step_profit |-> profit,
         model_copy |-> [working_copy EXCEPT !.state = state_after, !.objective = @ + profit,
                                             !.prng = prng_after_exog_info_fn(working_copy.state, working_copy.t, df, self_prng(working_copy))]]

\* One pass of the for loop.
CDIteration ==
    /\ pc = "for"
    /\ i < n_iterations
    /\ ~(model_copy.t >= T)
    /\ ~exog_info_fn_raises(market_trends_df)
    /\ LET pass == run_policy_pass(model, model_copy, policy_args, market_trends_df.rows)
       IN  /\ exog_info' = pass.exog_info
           /\ decision' = pass.decision
           /\ step_profit' = pass.step_profit
           /\ model_copy' = pass.model_copy
    /\ i' = i + 1
    /\ call' = "transition_fn"
    /\ returned' = "state"
    /\ UNCHANGED <<model, market_trends_df, policy_args, pc, result_list, twin>>

\* A pass of the for loop in which exog_info_fn raises: run_policy ends with
\* the TypeError.
CDRaise ==
    /\ pc = "for"
    /\ i < n_iterations
    /\ ~(model_copy.t >= T)
    /\ exog_info_fn_raises(market_trends_df)
    /\ pc' = "raised"
    /\ call' = "exog_info_fn"
    /\ returned' = "TypeError"
    /\ UNCHANGED <<model, model_copy, market_trends_df, policy_args, i, exog_info, decision, step_profit, result_list, twin>>

\* The loop ends (range exhausted, or the break on t >= T): return results.
CDReturn ==
    /\ pc = "for"
    /\ (i >= n_iterations \/ model_copy.t >= T)
    /\ pc' = "return"
    /\ call' = "none"
    /\ UNCHANGED <<model, model_copy, market_trends_df, policy_args, i, exog_info, decision, step_profit, returned, result_list, twin>>

Next ==
    \/ CDIteration
    \/ CDRaise
    \/ CDReturn

Spec == Init /\ [][Next]_vars

\* ------------------------- two runs of CarDealerPolicy.run_policy, side by side

\* A second model and policy built from the same S0, seed, trend table and
\* thresholds as the first: its run_policy has made model_copy = deepcopy(model).
NewTwin(m) ==
    [model |-> m, model_copy |-> m, i |-> 0, pc |-> "for",
     exog_info |-> NoExogInfo, decision |-> NoDecision, step_profit |-> 0]

InitTwin ==
    /\ \E S0 \in RunnerS0s :
          /\ WithinCapacity(S0)
          /\ \E seed \in Seeds : model = NewModel(S0, 0, seed)
          /\ policy_args \in PolicyArgs(S0)
    /\ model_copy = model
    /\ market_trends_df \in {DataFrame(rows) : rows \in TrendTables}
    /\ i = 0
    /\ pc = "for"
    /\ exog_info = NoExogInfo
    /\ decision = NoDecision
    /\ step_profit = 0
    /\ call = "none"
    /\ returned = "none"
    /\ result_list = <<>>
    /\ twin = NewTwin(model)

\* One pass of the for loop of the second run.
TwinIteration ==
    /\ twin.pc = "for"
    /\ twin.i < n_iterations
    /\ ~(twin.model_copy.t >= T)
    /\ LET pass == run_policy_pass(twin.model, twin.model_copy, policy_args, market_trends_df.rows)
       IN  twin' = [twin EXCEPT !.exog_info = pass.exog_info, !.decision = pass.decision,
                                !.step_profit = pass.step_profit, !.model_copy = pass.model_copy, !.i = @ + 1]
    /\ UNCHANGED <<model, model_copy, market_trends_df, policy_args, i, pc, exog_info, decision, step_profit, call, returned, result_list>>

\* The loop of the second run ends.
TwinReturn ==
    /\ twin.pc = "for"
    /\ (twin.i >= n_iterations \/ twin.model_copy.t >= T)
    /\ twin' = [twin EXCEPT !.pc = "return"]
    /\ UNCHANGED <<model, model_copy, market_trends_df, policy_args, i, pc, exog_info, decision, step_profit, call, returned, result_list>>

NextTwin ==
    \/ CDIteration
    \/ CDReturn
    \/ TwinIteration
    \/ TwinReturn

SpecTwin == InitTwin /\ [][NextTwin]_vars

\* ------------------------------------- the policies, called for any fleet

\* The fleets an S0 may track: the keys of S0["inventory_level"].
Fleets == {{"Car A", "Car B"}, {"Car A", "Car B", "Car C"}, {"Car A", "Car D"}, {"Car D"}}

\* The S0s of a fleet: 3 or 12 cars of each model, all held for 0 or 11 days.
FleetS0s(fleet) ==
    {[inventory_level |-> l,
      holding_time |-> [car \in fleet |-> h],
      competitor_price |-> [car \in fleet |-> 120],
      market_trends |-> [car \in fleet |-> "stable"],
      demand_forecast |-> [car \in fleet |-> Real(2)]] : l \in [fleet -> {3, 12}], h \in {0, 11}}

\* theta_min and theta_max as main.load_initial_state derives them from S0.
load_initial_state(S0) ==
    [theta_min |-> [car \in DOMAIN S0.inventory_level |-> Max(2, S0.inventory_level[car] - 2)],
     theta_max |-> [car \in DOMAIN S0.inventory_level |-> S0.inventory_level[car] + 5]]

\* The exogenous information a State may meet: a demand of 0 or 3 per car.
FleetExogInfos(state) ==
    {[demand |-> d, competitor_prices |-> state.competitor_price, market_trends |-> state.market_trends] :
        d \in [DOMAIN state.inventory_level -> {0, Real(3)}]}

\* get_decision looks up theta_min[car] for every car of state.inventory_level
\* in its two hard-coded tables: a car that is not in them is a KeyError.
get_decision_raises(state, t) ==
    \E car \in DOMAIN state.inventory_level : car \notin DOMAIN ThetaMin(state, t)

\* basic_order_up_to_policy looks up variance_demand[car], exog_info["demand"][car]
\* and theta_max[car] for every car of state.inventory_level.
basic_order_up_to_policy_raises(state, theta_max, exog) ==
    \E car \in DOMAIN state.inventory_level :
        car \notin DOMAIN variance_demand \/ car \notin DOMAIN exog.demand \/ car \notin DOMAIN theta_max

\* A model of some fleet, and the arguments main.py derives for its policy.
InitFleet ==
    /\ \E fleet \in Fleets : \E S0 \in FleetS0s(fleet) :
          /\ model = NewModel(S0, 0, 42)
          /\ policy_args = load_initial_state(S0)
    /\ model_copy = model
    /\ market_trends_df = DataFrame({})
    /\ i = 0
    /\ pc = "policies"
    /\ exog_info = NoExogInfo
    /\ decision = NoDecision
    /\ step_profit = 0
    /\ call = "none"
    /\ returned = "none"
    /\ result_list = <<>>
    /\ twin = NoTwin

\* policy.get_decision(model.state, t, T) of the threshold policy.
CallGetDecision(t) ==
    /\ pc = "policies"
    /\ i < MaxCalls
    /\ i' = i + 1
    /\ call' = "get_decision"
    /\ IF get_decision_raises(model.state, t)
       THEN returned' = "KeyError" /\ decision' = NoDecision
       ELSE returned' = "decision" /\ decision' = get_decision(model.state, t, T)
    /\ UNCHANGED <<model, model_copy, market_trends_df, policy_args, pc, exog_info, step_profit, result_list, twin>>

\* policy.basic_order_up_to_policy(theta_min, theta_max, exog_info=w).
CallBasicOrderUpToPolicy(w) ==
    /\ pc = "policies"
    /\ i < MaxCalls
    /\ i' = i + 1
    /\ call' = "basic_order_up_to_policy"
    /\ exog_info' = w
    /\ IF basic_order_up_to_policy_raises(model.state, policy_args.theta_max, w)
       THEN returned' = "KeyError" /\ decision' = NoDecision
       ELSE returned' = "decision" /\ decision' = basic_order_up_to_policy(model.state, policy_args.theta_min, policy_args.theta_max, w)
    /\ UNCHANGED <<model, model_copy, market_trends_df, policy_args, pc, step_profit, result_list, twin>>

NextFleet ==
    \/ \E t \in 0..(T - 1) : CallGetDecision(t)
    \/ \E w \in FleetExogInfos(model.state) : CallBasicOrderUpToPolicy(w)

SpecFleet == InitFleet /\ [][NextFleet]_vars

\* ---------------------------------------------------------------- claims

TotalInventory(state) == SumOver(state.inventory_level, DOMAIN state.inventory_level)

\* C1: capacity invariant.  A step that starts with at most max_inventory cars
\* in stock and whose decision is_valid_decision accepted ends with at most
\* max_inventory cars in stock, whatever the demand.
C1_CapacityAfterAcceptedStep ==
    [][(call' = "accepted_step" /\ TotalInventory(model.state) <= max_inventory)
        => TotalInventory(model'.state) <= max_inventory]_vars

\* C1 witness: an accepted step has filled the lot to exactly max_inventory.
C1_Witness ==
    /\ call = "accepted_step"
    /\ \E car \in Cars : decision.restock[car] > 0
    /\ TotalInventory(model.state) = max_inventory

\* C2: is_valid_decision raises exactly when a restock quantity is negative or
\* the stock after restocking is strictly above max_inventory, and in both
\* cases leaves the model's State, time and objective as they were.
C2_ValidDecisionExact ==
    [][call' = "is_valid_decision" =>
        /\ (returned' = "ValueError") <=>
              \/ \E car \in Cars : decision'.restock[car] < 0
              \/ SumOver([car \in Cars |-> Real(model.state.inventory_level[car]) + decision'.restock[car]], Cars) > Real(max_inventory)
        /\ returned' \in {"True", "ValueError"}
        /\ model' = model]_vars

\* C2 witness: a decision that fills the lot to exactly max_inventory was accepted
\* after the State had changed.
C2_Witness ==
    /\ call = "is_valid_decision"
    /\ returned = "True"
    /\ SumOver([car \in Cars |-> Real(model.state.inventory_level[car]) + decision.restock[car]], Cars) = Real(max_inventory)

\* C7: holding-time reset law.  After every transition a car whose new stock is
\* 0 has holding time 0, and any other car has its previous holding time + 1.
C7_HoldingTimeReset ==
    [][call' \in {"transition_fn", "accepted_step"} =>
        \A car \in Cars :
            model'.state.holding_time[car] =
                IF model'.state.inventory_level[car] = 0 THEN 0 ELSE model.state.holding_time[car] + 1]_vars

\* C7 witness: a car with an empty lot and a clock at 3 was restocked with 5
\* cars, sold none, and its clock went on to 4.
C7_Witness ==
    /\ call \in {"transition_fn", "accepted_step"}
    /\ \E car \in Cars :
          /\ decision.restock[car] = Real(5)
          /\ exog_info.demand[car] = 0
          /\ model.state.inventory_level[car] = 5
          /\ model.state.holding_time[car] = 4

\* C8: state non-negativity.  Stock and holding time of every car are
\* non-negative in every reachable state, whatever decisions and demands came.
C8_StateNonNegative ==
    \A car \in Cars : model.state.inventory_level[car] >= 0 /\ model.state.holding_time[car] >= 0

\* C8 witness: a negative restock was applied to an empty lot.
C8_Witness ==
    /\ call = "transition_fn"
    /\ \E car \in Cars : decision.restock[car] < 0 /\ model.state.inventory_level[car] = 0

\* A pass of the loop body of CarDealerPolicy.run_policy has just been made.
CDStepped == pc = "for" /\ i' = i + 1

\* C3: in every runner loop a transition is applied to the model's State only
\* for a decision that is_valid_decision accepts against the State it is
\* applied to (no negative restock, no total above max_inventory).
C3_TransitionOnlyIfValid ==
    [][CDStepped => is_valid_decision(model_copy.state, decision') = "True"]_vars

\* C4: the step objective added to the accumulator is objective_fn of the State
\* before the transition and of the exogenous information of that step.
C4_ObjectiveOnPreTransitionState ==
    [][CDStepped =>
        /\ step_profit' = objective_fn(model_copy.state, decision', exog_info')
        /\ model_copy'.objective = model_copy.objective + step_profit']_vars

\* C5: every step advances t by exactly 1, no transition is applied at t >= T,
\* and the run stops with t = T.
C5_TimeAdvance ==
    [][/\ CDStepped => (model_copy.t < T /\ model_copy'.t = model_copy.t + 1)
       /\ pc' = "return" => model_copy'.t = T]_vars

\* C6: the decision of a step is the policy's decision for the current State of
\* the model instance the transition is applied to.
C6_DecisionFromCurrentState ==
    [][CDStepped =>
        decision' = basic_order_up_to_policy(model_copy.state, policy_args.theta_min, policy_args.theta_max, exog_info')]_vars

\* C9: every decision a policy returns has restock >= 0, price >= 0 and
\* discount >= 0 for every car (here: the threshold policy in its runner).
C9_DecisionNonNegative ==
    call = "step" =>
        \A car \in Cars : decision.restock[car] >= 0 /\ decision.price[car] >= 0 /\ decision.discount[car] >= 0

\* C10: every decision a policy produces keeps the stock of the State it was
\* produced for, plus the restock, within max_inventory (here: the
\* forecast-adaptive policy, for a State that is itself within max_inventory).
C10_DecisionWithinCapacity ==
    [][(CDStepped /\ TotalInventory(model.state) <= max_inventory)
        => TotalAfterRestock(model.state, decision') <= Real(max_inventory)]_vars

\* A pass of the while loop of SDPPolicy.run_policy has just been made.
SDPStepped == pc = "while" /\ call' = "step"

\* What the cars before position k of the enumeration were given.
GivenBefore(restock, order, k) == SumOver([j \in 1..(k - 1) |-> restock[order[j]]], 1..(k - 1))

\* C11: threshold policy restock rule.  Cars are taken in the enumeration order
\* of inventory_level; the remaining capacity starts at max_inventory minus the
\* stock and goes down by what each earlier car was given; a car below its
\* minimum threshold gets min(maximum threshold - level, remaining capacity),
\* a car at or above it gets 0.
C11_ThresholdRestockRule ==
    [][SDPStepped =>
        LET state == model_copy.state
            order == KeyOrder(state.inventory_level)
            theta_min == ThetaMin(state, model_copy.t)
            theta_max == ThetaMax(state, model_copy.t)
        IN  /\ DOMAIN decision'.restock = DOMAIN state.inventory_level
            /\ \A k \in 1..Len(order) :
                  LET car == order[k]
                      remaining == Real(max_inventory - TotalInventory(state)) - GivenBefore(decision'.restock, order, k)
                  IN  decision'.restock[car] =
                        IF state.inventory_level[car] < theta_min[car]
                        THEN Min(Real(theta_max[car] - state.inventory_level[car]), remaining)
                        ELSE 0]_vars

\* C11 witness: with 3 and 4 cars in stock in a winter month the first car was
\* restocked to its maximum threshold (12 cars), and the second car got the
\* one place that was left, not the 16 cars up to its maximum threshold.
C11_Witness ==
    /\ call = "step"
    /\ decision.restock[CarOrder[1]] = Real(12)
    /\ decision.restock[CarOrder[2]] = Real(1)

\* The State's market trend is the given one for every car.
TrendIs(state, trend) == \A car \in DOMAIN state.market_trends : state.market_trends[car] = trend

\* The seasonal table values of the thresholds at time t.
SeasonalThetaMin(t) == IF IsWinter(t) THEN WinterThetaMin ELSE SummerThetaMin
SeasonalThetaMax(t) == IF IsWinter(t) THEN WinterThetaMax ELSE SummerThetaMax

\* The restock of the threshold rule for given thresholds.
RestockFor(state, theta_min, theta_max) ==
    LET restock == RestockLoop(state, theta_min, theta_max, 1, max_inventory - TotalInventory(state), <<>>)
    IN  [car \in DOMAIN restock |-> Real(restock[car])]

\* C12: threshold policy trend adjustment.  For a State whose market_trends is
\* rising for every car the restock is the one of the seasonal maximum
\* thresholds raised by 2, and for one that is declining for every car it is the
\* one of the seasonal minimum thresholds lowered by 2 (not below 0).
C12_TrendAdjustedThresholds ==
    [][SDPStepped =>
        LET state == model_copy.state
            t == model_copy.t
        IN  /\ TrendIs(state, "rising") =>
                  decision'.restock = RestockFor(state, SeasonalThetaMin(t), [car \in ThresholdCars |-> SeasonalThetaMax(t)[car] + 2])
            /\ TrendIs(state, "declining") =>
                  decision'.restock = RestockFor(state, [car \in ThresholdCars |-> Max(0, SeasonalThetaMin(t)[car] - 2)], SeasonalThetaMax(t))]_vars

\* C13: fleet coverage of decisions.  For every fleet a policy is called for,
\* the call returns a decision (it does not fail with a missing key) whose
\* restock, price and discount mappings have an entry for every car of the fleet.
C13_DecisionCoversFleet ==
    call \in {"get_decision", "basic_order_up_to_policy"} =>
        /\ returned = "decision"
        /\ DOMAIN decision.restock = DOMAIN model.state.inventory_level
        /\ DOMAIN decision.price = DOMAIN model.state.inventory_level
        /\ DOMAIN decision.discount = DOMAIN model.state.inventory_level

\* The per-car mappings of a State.
PerCarFields == StateFields \ {"trend_eta_params"}

\* C14: key-set invariant.  The initial State's per-car mappings share one key
\* set (the fleet), and after any number of steps (exog_info_fn followed by
\* transition_fn, with or without a trend row for a car) each of them still
\* has exactly that key set.
C14_KeySetInvariant ==
    \A field \in PerCarFields : DOMAIN model_copy.state[field] = DOMAIN model.state.inventory_level

\* C14 witness: the runner has made a second step, after a first step in a
\* month in which one car had a trend row ("Winter") and the other had none.
C14_Witness ==
    /\ call = "step"
    /\ returned = "True"
    /\ model_copy.t = 2
    /\ \E car \in Cars : model_copy.state.market_trends_lag1[car] = "Winter"
    /\ \E car \in Cars : model_copy.state.market_trends_lag1[car] = "stable"

C16_StreamContinues ==
    [][(pc = "for" /\ pc' = "while") =>
        /\ model_copy'.prng = model_copy.prng
        /\ i > 0 => model_copy'.prng.pos > 0]_vars

\* C16 witness: the second iteration has made its first step, drawing at
\* positions after those of the T steps of the first iteration.
C16_Witness ==
    /\ call = "step"
    /\ returned = "True"
    /\ i = 1
    /\ model_copy.t = 1
    /\ model_copy.prng.pos > T

\* The exogenous information of a step of the threshold runner has been made.
SDPDrew == SDPStepped /\ returned' = "True"

\* C17: demand bounds.  The demand exog_info_fn returns has an entry for every
\* tracked car, and each entry is at least 0 and at most twice the car's
\* demand_forecast in the State it was drawn for, whether or not the car has a
\* trend row for the month.
C17_DemandBounds ==
    [][SDPDrew =>
        /\ DOMAIN exog_info'.demand = DOMAIN model_copy.state.inventory_level
        /\ \A car \in DOMAIN model_copy.state.inventory_level :
              /\ model_copy.state.demand_forecast[car] >= 0
              /\ 0 <= exog_info'.demand[car]
              /\ exog_info'.demand[car] <= 2 * model_copy.state.demand_forecast[car]]_vars

\* C17 witness: in the first step (forecast 2 for each car) the car with a
\* trend row drew a demand above 4 and got 4, and the car without one drew a
\* negative demand and got 0.
C17_Witness ==
    /\ call = "step"
    /\ returned = "True"
    /\ model_copy.t = 1
    /\ \E car \in Cars : exog_info.market_trends[car] = "Winter" /\ exog_info.demand[car] = Real(4)
    /\ \E car \in Cars : exog_info.market_trends[car] = "stable" /\ exog_info.demand[car] = 0

\* A pass of the loop body of CarDealerPolicy.run_policy has called exog_info_fn.
CDCalledExogInfoFn == pc = "for" /\ call' \in {"transition_fn", "exog_info_fn"}

\* C18: stable-trend fallback.  exog_info_fn does not raise, and for every car
\* with no row in the trend reference for the month it returns "stable" and
\* the State's current competitor price; also when no car has a row, as for a
\* model that was given no trend reference at all.
C18_StableFallback ==
    [][CDCalledExogInfoFn =>
        /\ returned' # "TypeError"
        /\ \A car \in DOMAIN model_copy.state.inventory_level :
              (\A row \in market_trends_df.rows : ~(row.Month = CurrentMonth(model_copy.t) /\ row.Model = car)) =>
                  /\ exog_info'.market_trends[car] = "stable"
                  /\ exog_info'.competitor_prices[car] = model_copy.state.competitor_price[car]]_vars

\* The rows of iteration n among the rows logged, in the order they were logged.
RowsOf(rows, n) == SelectSeq(rows, LAMBDA row : row.N = n)

\* C19: runner recording.  Every step of an iteration logs one row: the
\* iteration, t < T, the cumulative objective and the State before the step and
\* the decision taken; and the step adds its objective to the cumulative
\* objective.  When the iteration ends its rows are those of t = 0 .. T - 1,
\* starting from a cumulative objective of 0, and one terminal row with t = T
\* and the cumulative objective reached, the sum of the T step objectives.
\* When the runner returns, the performance of each iteration is the cumulative
\* objective of its terminal row.
C19_RunnerRecording ==
    [][/\ SDPDrew =>
            /\ result_list' = Append(result_list, [N |-> i, t |-> model_copy.t, C_t_sum |-> model_copy.objective,
                                                     state |-> model_copy.state, decision |-> decision'])
            /\ model_copy.t < T
            /\ model_copy'.objective = model_copy.objective + objective_fn(model_copy.state, decision', exog_info')
       /\ (pc = "while" /\ pc' = "for") =>
            LET rows == RowsOf(result_list', i)
            IN  /\ Len(rows) = T + 1
                /\ \A k \in 1..(T + 1) : rows[k].t = k - 1
                /\ rows[1].C_t_sum = 0
                /\ \A k \in 1..T : rows[k + 1].state.market_trends_lag1 = rows[k].state.market_trends
                /\ rows[T + 1].C_t_sum = model_copy.objective
       /\ (pc = "for" /\ pc' = "return") =>
            performance(result_list') = {<<n, RowsOf(result_list', n)[T + 1].C_t_sum>> : n \in 0..(n_iterations - 1)}]_vars

\* C19 witness: the runner has returned with T + 1 rows for each iteration,
\* and the performances of two iterations differ.
C19_Witness ==
    /\ pc = "return"
    /\ Len(result_list) = n_iterations * (T + 1)
    /\ \E p, q \in performance(result_list) : p[2] # 0 /\ p[2] # q[2]

\* C20: inventory transition.  For every car transition_fn reports
\* cars_sold = min(round(demand), inventory_level) and cars_added = restock, and
\* the new inventory_level is max(0, inventory_level + cars_added - cars_sold);
\* for a non-negative restock and demand that is inventory_level + cars_added
\* - cars_sold with 0 <= cars_sold <= inventory_level.
C20_InventoryTransition ==
    [][call' \in {"transition_fn", "accepted_step"} =>
        LET new_state == transition_fn(model.state, model.t, decision', exog_info')
        IN  \A car \in DOMAIN model.state.inventory_level :
                LET level == model.state.inventory_level[car]
                    sold == new_state.cars_sold[car]
                    added == new_state.cars_added[car]
                IN  /\ sold = Min(PyRound(exog_info'.demand[car]), level)
                    /\ Real(added) = decision'.restock[car]
                    /\ model'.state.inventory_level[car] = Max(0, level + added - sold)
                    /\ (decision'.restock[car] >= 0 /\ exog_info'.demand[car] >= 0) =>
                          /\ model'.state.inventory_level[car] = level + added - sold
                          /\ 0 <= sold /\ sold <= level]_vars

\* C21: sold-units consistency between objective and transition.  For one
\* pre-transition State and one exogenous demand (2.6 and 3.5 among them), the
\* units of a car objective_fn takes as sold for the revenue are cars_sold[car]
\* of transition_fn, and the units it takes as unsold for the holding cost are
\* inventory_level[car] - cars_sold[car].
C21_SoldUnitsConsistency ==
    [][call' \in {"transition_fn", "accepted_step"} =>
        LET new_state == transition_fn(model.state, model.t, decision', exog_info')
        IN  \A car \in DOMAIN model.state.inventory_level :
                /\ RevenueUnits(model.state, exog_info', car) = Real(new_state.cars_sold[car])
                /\ unsold_inventory(model.state, exog_info')[car] = model.state.inventory_level[car] - new_state.cars_sold[car]]_vars

\* C22: trend lag shift.  After every transition the new market_trends_lag1 is
\* the previous market_trends, the new market_trends_lag2 is the previous
\* market_trends_lag1 and the new market_trends is the trend mapping of the
\* step's exogenous information; and after the second of two consecutive
\* transitions market_trends_lag2 is the market_trends of two steps earlier
\* (here: of the State the run started from, which the policy's model keeps).
C22_TrendLagShift ==
    [][CDStepped =>
        /\ model_copy'.state.market_trends_lag1 = model_copy.state.market_trends
        /\ model_copy'.state.market_trends_lag2 = model_copy.state.market_trends_lag1
        /\ model_copy'.state.market_trends = exog_info'.market_trends
        /\ i = 1 => model_copy'.state.market_trends_lag2 = model.state.market_trends]_vars

\* C22 witness: two transitions were applied to a State whose trends were
\* "rising" and whose lags were "stable"; the exogenous trend of Car A was
\* "Winter" in both steps, and "rising" has reached market_trends_lag2.
C22_Witness ==
    /\ pc = "for"
    /\ i = 2
    /\ model.state.market_trends = Dict("rising", "rising")
    /\ model.state.market_trends_lag1 = Dict("stable", "stable")
    /\ model_copy.state.market_trends_lag2 = Dict("rising", "rising")
    /\ model_copy.state.market_trends_lag1["Car A"] = "Winter"
    /\ model_copy.state.market_trends = exog_info.market_trends
    /\ exog_info.market_trends["Car A"] = "Winter"

====
